---------------------------- MODULE Spec2Model ----------------------------
(* The Omega scan driver, gwdetchar/omega/__main__.py: main() as a state   *)
(* machine.  One action per statement group of main(), in program order;   *)
(* `pc` is the position in main().  The collaborators (get_data,           *)
(* check_flag, omega.scan, the plotting and HTML writers) are called       *)
(* through their interfaces: what they return is an input, drawn from a    *)
(* small set at the call, and what they are asked to do is recorded.       *)
(*                                                                         *)
(* Times are integers in centiseconds (gps is rounded to 0.01 s), durations*)
(* are whole seconds.  Channels are named 1..MaxChans, each configured in  *)
(* one block; the channels of a block are scanned in increasing order.     *)
EXTENDS Integers, Sequences, FiniteSets

(* ---- bounds ---- *)
MaxChans == 2
MaxBlocks == 2
MaxRecord == 2
MaxSamples == 3

Chan == 1..MaxChans
Blk == 1..MaxBlocks

NoneV == "None"
Undefined == "undefined"

(* values of --ifo: two interferometers, or the option not given *)
IfoArgs == {"H1", "L1", NoneV}
(* positional gpstime, in milliseconds *)
GpstimeArgs == {1234391, 1234395, 1234385}
(* block.duration / primary.duration of the configuration, in seconds *)
Durations == {3, 64}
(* block.flag of the configuration with what check_flag says of it: no     *)
(* flag, a flag active for all of the duration, a flag that is not         *)
FlagStates == {NoneV, "active", "inactive"}
(* what the scan statement of one channel can end with *)
ScanOutcomes == {"series", NoneV, "ValueError", "KeyError", "RuntimeError"}
Exceptions == {"ValueError", "KeyError", "RuntimeError", "NameError"}

Range(s) == {s[i] : i \in 1..Len(s)}

(* sequences over S of length at most n in which no element repeats *)
SeqUpTo(S, n) ==
    {s \in UNION {[1..k -> S] : k \in 0..n} :
        \A i, j \in 1..Len(s) : s[i] = s[j] => i = j}

(* ---- pure helpers, as the code computes them ---- *)

(* Python's `a or b` on strings/None: a when a is truthy, else b *)
Truthy(a) == a \notin {NoneV, ""}
PyOr(a, b) == IF Truthy(a) THEN a ELSE b

(* line 150: ifo = 'Network' or args.ifo *)
GetIfo(arg) == PyOr("Network", arg)

(* line 151: numpy.around(float(gpstime), 2): milliseconds to the nearest  *)
(* centisecond, halves to the even one                                     *)
Around2(ms) ==
    LET q == ms \div 10
        r == ms % 10
    IN  IF r < 5 THEN q
        ELSE IF r > 5 THEN q + 1
        ELSE IF q % 2 = 0 THEN q ELSE q + 1

(* lines 155-158: the given files, or the standard ones for ifo and gps *)
GetConfigFile(given, i, g) ==
    IF given # NoneV THEN <<"given", given>> ELSE <<"default", i, g>>

(* line 190: '{} Qscan | {}'.format(ifo, gps) *)
Title(i, g) == <<i, "Qscan", g>>

(* lines 196-201 *)
GetOutdir(given, i, g) ==
    IF given # NoneV THEN <<"abspath", given>>
    ELSE <<"~/public_html/wdq", i, g>>

(* a build that reads the record whenever the file is there *)
UseCheckpoint_always(exists, disabled) == exists

(* line 219 *)
UseCheckpoint(exists, disabled) == exists /\ ~disabled

(* a build that wants the column whether or not it correlates *)
RecordUnusable_strict(nocorr, hasStd) == ~hasStd

(* lines 224-225 *)
RecordUnusable(nocorr, hasStd) == ~nocorr /\ ~hasStd

(* a build whose window starts without the second of padding *)
WindowStart_nopad(g, d) == g - d * 50

(* lines 248 / 281 and 249 / 282, in centiseconds *)
WindowStart(g, d) == g - d * 50 - 100
WindowEnd(g, d) == g + d * 50 + 100

(* a build that queries every flag, --ignore-state-flags or not *)
QueryFlag_always(f, ignore) == f # NoneV

(* line 273: block.flag and (not args.ignore_state_flags) *)
QueryFlag(f, ignore) == f # NoneV /\ ~ignore

(* line 275: not check_flag(block.flag, gps, duration, pad=1) *)
NotActive(f) == f = "inactive"

(* a build that looks only at the first channel of the block *)
NeedData_first(chans, done) ==
    chans # <<>> /\ chans[1] \notin Range(done)

(* line 280: not (set(chans) <= set(completed)) *)
NeedData(chans, done) == ~(Range(chans) \subseteq Range(done))

(* line 290 *)
IsCompleted(name, done) == name \in Range(done)

(* a build that takes the last row of the record *)
Index_last(done, name) == Len(done)

(* line 293: list.index, the first position of name *)
Index(done, name) ==
    CHOOSE i \in 1..Len(done) :
        done[i] = name /\ \A j \in 1..(i - 1) : done[j] # name

(* a build that catches ValueError alone *)
Caught_narrow(exc) == exc = "ValueError"

(* line 309: except (ValueError, KeyError) *)
Caught(exc) == exc \in {"ValueError", "KeyError"}

(* a build without the test for None *)
Insignificant_never(s) == FALSE

(* line 314 *)
Insignificant(s) == s = NoneV

(* a build that correlates whatever `correlate` is *)
HasFilter_always(c) == TRUE

(* lines 295 and 326: correlate is not None *)
HasFilter(c) == c # NoneV

(* ---- scattering/core.py, get_segments: pure helpers ---- *)

(* a build whose comparison lets the threshold itself through *)
Above_orEqual(x, threshold) == x >= threshold

(* line 152: series > threshold, sample by sample *)
Above(x, threshold) == x > threshold

(* line 152: the boolean series *)
Compare(samples, threshold) ==
    [i \in 1..Len(samples) |-> Above(samples[i], threshold)]

(* line 154: thresh.to_dqflag(name, round=True), as get_segments calls it:  *)
(* the flag carries the name it is given and one active segment for each   *)
(* maximal run of true samples, [a, b) in sample positions; the rounding   *)
(* to whole seconds that round=True asks for is the library's and is       *)
(* recorded as asked for                                                   *)
ToDqflag(thresh, name) ==
    [name |-> name,
     round |-> TRUE,
     active |->
        {<<a, b>> \in (1..Len(thresh)) \X (2..(Len(thresh) + 1)) :
            /\ a < b
            /\ \A i \in a..(b - 1) : thresh[i]
            /\ a = 1 \/ ~thresh[a - 1]
            /\ b = Len(thresh) + 1 \/ ~thresh[b]}]

(* no call of get_segments *)
NoCall == [pc |-> "idle", series |-> <<>>, sname |-> NoneV, threshold |-> 0,
           given |-> NoneV, name |-> NoneV, thresh |-> <<>>,
           threshflag |-> NoneV]

(* ---- state ---- *)
VARIABLES
    pc,                  \* position in main()
    raised,              \* the exception that ended main(), or None
    argv,                \* the command line, as parsed on line 147
    cfg,                 \* the configuration files: primary section, blocks
    summary,             \* data/summary.csv in the output directory
    seg,                 \* a call of scattering.get_segments: its arguments
                         \* (the name as given), its locals and where it is
    ifo, gps,            \* lines 150-151
    config_file,         \* args.config_file after line 155
    disable_correlation, \* args.disable_correlation (line 175 sets it)
    primary,             \* line 170
    title, refresh,      \* htmlv['title'], htmlv['refresh']
    outdir,              \* line 196
    recordRead,          \* Table.read(summary) was called (line 222)
    completed,           \* line 223 / 232
    correlate,           \* line 254 / 263
    request,             \* the last get_data call: who (a block, 0 for the
                         \* primary), the channel names asked for (<<0>> is
                         \* the primary's), start, end, the duration in force
    data,                \* the block whose channels `data` holds, 0 before
    blk, ci,             \* the block and the channel position of the loops
    series,              \* what the last scan statement ended with
    analyzed,            \* the table of contents, in order
    page,                \* index.html as last written
    npages,              \* number of page writes
    pagedFor,            \* channels after which the page was rewritten
    reads,               \* the blocks get_data was called for
    flag,                \* block.flag of the block last met, with its state
    queried,             \* check_flag was called for that block
    skipped,             \* blocks skipped for an inactive flag
    nprimary,            \* number of times the primary's data was read
    scanned,             \* channels omega.scan was called for
    plotted,             \* channels write_qscan_plots was called for
    crossed,             \* channels omega.cross_correlate was called for
    features             \* loudest-tile features of each channel

vars == <<pc, raised, argv, cfg, summary, seg, ifo, gps, config_file,
          disable_correlation, primary, title, refresh, outdir, recordRead,
          completed, correlate, request, data, blk, ci, series,
          analyzed, page, npages, pagedFor, reads, nprimary, flag, queried,
          skipped, scanned, plotted, crossed, features>>

(* the channels of block b, in configuration order *)
Chans(b) ==
    LET S == {c \in Chan : cfg.section[c] = b}
        F[k \in 0..MaxChans] ==
            IF k = 0 THEN <<>>
            ELSE IF k \in S THEN Append(F[k - 1], k) ELSE F[k - 1]
    IN  F[MaxChans]

(* the channel of the inner loop *)
channel == Chans(blk)[ci]

NoFeatures == [from |-> "none", row |-> 0, correlated |-> FALSE]
NoPage == [kind |-> "none", toc |-> <<>>, refresh |-> FALSE, title |-> <<>>]
NoRequest ==
    [who |-> -1, names |-> <<>>, start |-> 0, end |-> 0, duration |-> 0]

(* configurations: every channel in one block, blocks in order *)
Sections ==
    {f \in [Chan -> Blk] : \A c, d \in Chan : c <= d => f[c] <= f[d]}

(* data/summary.csv: absent, or the table a previous run left, one row per *)
(* channel it saved, with a 'Channel' column and with or without a         *)
(* 'Standard Deviation' column                                             *)
Summaries ==
    {[exists |-> FALSE, std |-> FALSE, Channel |-> <<>>]} \cup
    [exists : {TRUE}, std : BOOLEAN, Channel : SeqUpTo(Chan, MaxRecord)]

StartState ==
    /\ pc = "args" /\ raised = NoneV
    /\ seg = NoCall
    /\ ifo = Undefined /\ gps = 0 /\ config_file = Undefined
    /\ disable_correlation = argv.disable_correlation
    /\ primary = Undefined /\ title = Undefined /\ refresh = FALSE
    /\ outdir = Undefined /\ recordRead = FALSE /\ completed = <<>>
    /\ correlate = Undefined /\ request = NoRequest
    /\ data = 0 /\ blk = 0 /\ ci = 0 /\ series = Undefined
    /\ analyzed = <<>> /\ page = NoPage /\ npages = 0 /\ pagedFor = {}
    /\ reads = {} /\ nprimary = 0 /\ flag = Undefined /\ queried = FALSE
    /\ skipped = {} /\ scanned = {} /\ plotted = {} /\ crossed = {}
    /\ features = [c \in Chan |-> NoFeatures]

(* a scan of H1 with the standard configuration and output directory, over *)
(* every choice of the three switches, configuration and checkpoint record *)
Init ==
    /\ argv \in [ifo : {"H1"}, gpstime : {1234395},
                 output_directory : {NoneV}, config_file : {NoneV},
                 disable_correlation : BOOLEAN, disable_checkpoint : BOOLEAN,
                 ignore_state_flags : BOOLEAN]
    /\ cfg \in [primary : BOOLEAN, section : Sections]
    /\ summary \in Summaries
    /\ StartState

(* every choice of the options that name the scan, on one configuration *)
InitArgs ==
    /\ argv \in [ifo : IfoArgs, gpstime : GpstimeArgs,
                 output_directory : {NoneV, "/scans/out"},
                 config_file : {NoneV, "my.ini"},
                 disable_correlation : BOOLEAN, disable_checkpoint : {FALSE},
                 ignore_state_flags : {FALSE}]
    /\ cfg \in [primary : BOOLEAN, section : {[c \in Chan |-> 1]}]
    /\ summary = [exists |-> FALSE, std |-> FALSE, Channel |-> <<>>]
    /\ StartState

(* ---- main(), lines 149-215: arguments, configuration, output ---- *)

(* lines 149-152 *)
GetArguments ==
    /\ pc = "args"
    /\ ifo' = GetIfo(argv.ifo)
    /\ gps' = Around2(argv.gpstime)
    /\ pc' = "config"
    /\ UNCHANGED <<raised, argv, cfg, summary, seg, config_file,
                   disable_correlation, primary, title, refresh, outdir,
                   recordRead, completed, correlate, request, data,
                   blk, ci, series, analyzed, page, npages, pagedFor, reads,
                   nprimary, flag, queried, skipped, scanned, plotted, crossed,
                   features>>

(* lines 154-165 *)
GetConfiguration ==
    /\ pc = "config"
    /\ config_file' = GetConfigFile(argv.config_file, ifo, gps)
    /\ pc' = "primary"
    /\ UNCHANGED <<raised, argv, cfg, summary, seg, ifo, gps,
                   disable_correlation, primary, title, refresh, outdir,
                   recordRead, completed, correlate, request, data,
                   blk, ci, series, analyzed, page, npages, pagedFor, reads,
                   nprimary, flag, queried, skipped, scanned, plotted, crossed,
                   features>>

(* lines 167-186: the primary section, when correlation is wanted *)
ParsePrimary ==
    /\ pc = "primary"
    /\ IF ~disable_correlation
       THEN IF cfg.primary
            THEN primary' = "primary" /\ UNCHANGED disable_correlation
            ELSE disable_correlation' = TRUE /\ UNCHANGED primary
       ELSE UNCHANGED <<primary, disable_correlation>>
    /\ pc' = "htmlv"
    /\ UNCHANGED <<raised, argv, cfg, summary, seg, ifo, gps, config_file,
                   title, refresh, outdir,
                   recordRead, completed, correlate, request, data,
                   blk, ci, series, analyzed, page, npages, pagedFor, reads,
                   nprimary, flag, queried, skipped, scanned, plotted, crossed,
                   features>>

(* lines 188-193 *)
PrepareHtml ==
    /\ pc = "htmlv"
    /\ title' = Title(ifo, gps)
    /\ refresh' = TRUE
    /\ pc' = "outdir"
    /\ UNCHANGED <<raised, argv, cfg, summary, seg, ifo, gps, config_file,
                   disable_correlation, primary, outdir,
                   recordRead, completed, correlate, request, data,
                   blk, ci, series, analyzed, page, npages, pagedFor, reads,
                   nprimary, flag, queried, skipped, scanned, plotted, crossed,
                   features>>

(* lines 195-215 *)
SetOutdir ==
    /\ pc = "outdir"
    /\ outdir' = GetOutdir(argv.output_directory, ifo, gps)
    /\ pc' = "checkpoint"
    /\ UNCHANGED <<raised, argv, cfg, summary, seg, ifo, gps, config_file,
                   disable_correlation, primary, title, refresh,
                   recordRead, completed, correlate, request, data,
                   blk, ci, series, analyzed, page, npages, pagedFor, reads,
                   nprimary, flag, queried, skipped, scanned, plotted, crossed,
                   features>>

NextArgs ==
    \/ GetArguments
    \/ GetConfiguration
    \/ ParsePrimary
    \/ PrepareHtml
    \/ SetOutdir

SpecArgs == InitArgs /\ [][NextArgs]_vars

(* ---- main(), lines 217-350: the scan ---- *)

inputs == <<argv, cfg, summary, seg>>
named == <<ifo, gps, config_file, primary, title, outdir>>
loopv == <<blk, ci>>
flags == <<flag, queried, skipped>>
products == <<scanned, plotted, crossed, features>>
pages == <<analyzed, page, npages, pagedFor>>
got == <<reads, nprimary>>

(* html.write_qscan_page(ifo, gps, toc, **htmlv) *)
QscanPage(toc) ==
    [kind |-> "qscan", toc |-> toc, refresh |-> refresh, title |-> title]

(* lines 217-232: the record of a previous run; KeyError on line 226 *)
DetermineCheckpoints ==
    /\ pc = "checkpoint"
    /\ IF UseCheckpoint(summary.exists, argv.disable_checkpoint)
       THEN /\ recordRead' = TRUE
            /\ completed' = summary.Channel
            /\ IF RecordUnusable(disable_correlation, summary.std)
               THEN raised' = "KeyError" /\ pc' = "raised"
               ELSE raised' = raised /\ pc' = "page0"
       ELSE /\ recordRead' = FALSE
            /\ completed' = <<>>
            /\ raised' = raised /\ pc' = "page0"
    /\ UNCHANGED <<inputs, named, disable_correlation, refresh, correlate,
                   request, data, loopv, series, flags, products,
                   pages, got>>

(* lines 234-236: the page before any channel *)
WriteInitialPage ==
    /\ pc = "page0"
    /\ page' = QscanPage(analyzed)
    /\ npages' = npages + 1
    /\ pc' = "filter"
    /\ UNCHANGED <<inputs, named, disable_correlation, refresh, raised,
                   recordRead, completed, correlate, request, data,
                   loopv, series, flags, products, analyzed, pagedFor, got>>

(* lines 241-263: the matched filter of the primary channel, or None *)
ProcessPrimary ==
    /\ pc = "filter"
    /\ IF ~disable_correlation
       THEN \E d \in Durations :
              /\ request' = [who |-> 0, names |-> <<0>>,
                             start |-> WindowStart(gps, d),
                             end |-> WindowEnd(gps, d), duration |-> d]
              /\ nprimary' = nprimary + 1
              /\ correlate' = "filter"
       ELSE /\ correlate' = NoneV
            /\ UNCHANGED <<request, nprimary>>
    /\ blk' = 1 /\ ci' = 0
    /\ pc' = "block"
    /\ UNCHANGED <<inputs, named, disable_correlation, refresh, raised,
                   recordRead, completed, data, series, flags, products,
                   pages, reads>>

(* lines 266-278: the block's state flag is not active, skip the block *)
SkipBlock ==
    /\ pc = "block" /\ blk \in Blk
    /\ \E f \in FlagStates :
         /\ QueryFlag(f, argv.ignore_state_flags)
         /\ NotActive(f)
         /\ flag' = f
         /\ queried' = TRUE
         /\ skipped' = skipped \cup {blk}
    /\ blk' = blk + 1
    /\ UNCHANGED <<pc, ci, inputs, named, disable_correlation, refresh,
                   raised, recordRead, completed, correlate, request, data,
                   series, products, pages, got>>

(* lines 266-286: no flag to check or the flag is active; read the data of *)
(* the block unless every channel is in the record                         *)
ReadBlock ==
    /\ pc = "block" /\ blk \in Blk
    /\ \E f \in FlagStates, d \in Durations :
         /\ ~(QueryFlag(f, argv.ignore_state_flags) /\ NotActive(f))
         /\ flag' = f
         /\ queried' = QueryFlag(f, argv.ignore_state_flags)
         /\ IF NeedData(Chans(blk), completed)
            THEN /\ request' = [who |-> blk, names |-> Chans(blk),
                                start |-> WindowStart(gps, d),
                                end |-> WindowEnd(gps, d), duration |-> d]
                 /\ reads' = reads \cup {blk}
                 /\ data' = blk
            ELSE UNCHANGED <<request, reads, data>>
    /\ ci' = 1
    /\ pc' = "channel"
    /\ UNCHANGED <<blk, skipped, inputs, named, disable_correlation, refresh,
                   raised, recordRead, completed, correlate, series,
                   products, pages, nprimary>>

(* line 289: the channels of the block are exhausted *)
NextBlock ==
    /\ pc = "channel" /\ ci > Len(Chans(blk))
    /\ blk' = blk + 1 /\ ci' = 0
    /\ pc' = "block"
    /\ UNCHANGED <<inputs, named, disable_correlation, refresh, raised,
                   recordRead, completed, correlate, request, data,
                   series, flags, products, pages, got>>

(* lines 290-295: the channel is in the record, load its features *)
LoadCheckpoint ==
    /\ pc = "channel" /\ ci <= Len(Chans(blk))
    /\ IsCompleted(channel, completed)
    /\ features' = [features EXCEPT ![channel] =
                      [from |-> "record", row |-> Index(completed, channel),
                       correlated |-> HasFilter(correlate)]]
    /\ pc' = "toc"
    /\ UNCHANGED <<inputs, named, disable_correlation, refresh, raised,
                   recordRead, completed, correlate, request, data,
                   loopv, series, flags, scanned, plotted, crossed, pages,
                   got>>

(* lines 302-318: the scan statement and what it ends with.  The lookup    *)
(* data[channel.name] comes first: NameError when no data was ever read,   *)
(* KeyError when the data holds no such channel; then omega.scan is called *)
(* and returns a series or None (not significant), or raises.  ValueError  *)
(* and KeyError are caught and the channel skipped, anything else ends     *)
(* main()                                                                  *)
ScanChannel ==
    /\ pc = "channel" /\ ci <= Len(Chans(blk))
    /\ ~IsCompleted(channel, completed)
    /\ \E out \in ScanOutcomes :
         /\ series' = IF data = 0 THEN "NameError"
                      ELSE IF channel \notin Range(Chans(data))
                           THEN "KeyError" ELSE out
         /\ scanned' = IF data = 0 \/ channel \notin Range(Chans(data))
                       THEN scanned ELSE scanned \cup {channel}
         /\ IF series' \in Exceptions
            THEN IF Caught(series')
                 THEN ci' = ci + 1 /\ pc' = "channel" /\ raised' = raised
                 ELSE ci' = ci /\ pc' = "raised" /\ raised' = series'
            ELSE IF Insignificant(series')
                 THEN ci' = ci + 1 /\ pc' = "channel" /\ raised' = raised
                 ELSE ci' = ci /\ pc' = "plot" /\ raised' = raised
    /\ UNCHANGED <<blk, inputs, named, disable_correlation, refresh,
                   recordRead, completed, correlate, request, data,
                   flags, plotted, crossed, features, pages, reads,
                   nprimary>>

(* lines 320-324 *)
WritePlots ==
    /\ pc = "plot"
    /\ plotted' = plotted \cup {channel}
    /\ pc' = "save"
    /\ UNCHANGED <<inputs, named, disable_correlation, refresh, raised,
                   recordRead, completed, correlate, request, data,
                   loopv, series, flags, scanned, crossed, features, pages,
                   got>>

(* lines 326-332: cross-correlate with the primary when there is a filter, *)
(* and save the loudest-tile features                                      *)
SaveFeatures ==
    /\ pc = "save"
    /\ IF HasFilter(correlate)
       THEN /\ crossed' = crossed \cup {channel}
            /\ features' = [features EXCEPT ![channel] =
                   [from |-> "scan", row |-> 0, correlated |-> TRUE]]
       ELSE /\ crossed' = crossed
            /\ features' = [features EXCEPT ![channel] =
                   [from |-> "scan", row |-> 0, correlated |-> FALSE]]
    /\ pc' = "toc"
    /\ UNCHANGED <<inputs, named, disable_correlation, refresh, raised,
                   recordRead, completed, correlate, request, data,
                   loopv, series, flags, scanned, plotted, pages, got>>

(* lines 296-298 and 334-336: html.update_toc appends the channel *)
UpdateToc ==
    /\ pc = "toc"
    /\ analyzed' = Append(analyzed, channel)
    /\ pc' = "page"
    /\ UNCHANGED <<inputs, named, disable_correlation, refresh, raised,
                   recordRead, completed, correlate, request, data,
                   loopv, series, flags, products, page, npages, pagedFor,
                   got>>

(* a build that goes to the next channel without rewriting the page *)
WriteChannelPage_skipped ==
    /\ pc = "page"
    /\ pagedFor' = pagedFor \cup {channel}
    /\ ci' = ci + 1
    /\ pc' = "channel"
    /\ UNCHANGED <<blk, inputs, named, disable_correlation, refresh, raised,
                   recordRead, completed, correlate, request, data,
                   series, flags, products, analyzed, page, npages, got>>

(* lines 299-300 and 337: rewrite the page, go to the next channel *)
WriteChannelPage ==
    /\ pc = "page"
    /\ page' = QscanPage(analyzed)
    /\ npages' = npages + 1
    /\ pagedFor' = pagedFor \cup {channel}
    /\ ci' = ci + 1
    /\ pc' = "channel"
    /\ UNCHANGED <<blk, inputs, named, disable_correlation, refresh, raised,
                   recordRead, completed, correlate, request, data,
                   series, flags, products, analyzed, got>>

(* lines 339-350: the last page, without auto-refresh *)
Finalize ==
    /\ pc = "block" /\ blk \notin Blk
    /\ refresh' = FALSE
    /\ page' = IF analyzed # <<>>
               THEN [kind |-> "qscan", toc |-> analyzed, refresh |-> FALSE,
                     title |-> title]
               ELSE [kind |-> "null", toc |-> <<>>, refresh |-> FALSE,
                     title |-> title]
    /\ npages' = npages + 1
    /\ pc' = "done"
    /\ UNCHANGED <<inputs, named, disable_correlation, raised, recordRead,
                   completed, correlate, request, data, loopv,
                   series, flags, products, analyzed, pagedFor, got>>

NextScan ==
    \/ DetermineCheckpoints
    \/ WriteInitialPage
    \/ ProcessPrimary
    \/ SkipBlock
    \/ ReadBlock
    \/ NextBlock
    \/ LoadCheckpoint
    \/ ScanChannel
    \/ WritePlots
    \/ SaveFeatures
    \/ UpdateToc
    \/ WriteChannelPage
    \/ Finalize

Next == NextArgs \/ NextScan

Spec == Init /\ [][Next]_vars

(* ---- scattering/core.py, get_segments(series, threshold, name=None) ---- *)

(* sample values and thresholds, so that samples fall below, on and above  *)
SampleValues == {1, 2, 3}
Thresholds == {1, 2, 3}
(* the name argument: not given (None), empty, or a name *)
NameArgs == {NoneV, "", "SCATTER"}
(* series.name: a channel name, or None for an unnamed series *)
SeriesNames == {"L1:SUS-ETMX", NoneV}

(* everything of main(), which get_segments does not touch *)
mainv == <<pc, raised, argv, cfg, ifo, gps, summary, config_file,
           disable_correlation, primary, title, refresh, outdir, recordRead,
           completed, correlate, request, data, blk, ci, series,
           analyzed, page, npages, pagedFor, reads, nprimary, flag, queried,
           skipped, scanned, plotted, crossed, features>>

(* a call of get_segments with every choice of its arguments; main() is    *)
(* not running                                                             *)
InitSegments ==
    /\ argv = [ifo |-> NoneV, gpstime |-> 1234395,
               output_directory |-> NoneV, config_file |-> NoneV,
               disable_correlation |-> FALSE, disable_checkpoint |-> FALSE,
               ignore_state_flags |-> FALSE]
    /\ cfg = [primary |-> FALSE, section |-> [c \in Chan |-> 1]]
    /\ summary = [exists |-> FALSE, std |-> FALSE, Channel |-> <<>>]
    /\ pc = "args" /\ raised = NoneV
    /\ ifo = Undefined /\ gps = 0 /\ config_file = Undefined
    /\ disable_correlation = FALSE
    /\ primary = Undefined /\ title = Undefined /\ refresh = FALSE
    /\ outdir = Undefined /\ recordRead = FALSE /\ completed = <<>>
    /\ correlate = Undefined /\ request = NoRequest
    /\ data = 0 /\ blk = 0 /\ ci = 0 /\ series = Undefined
    /\ analyzed = <<>> /\ page = NoPage /\ npages = 0 /\ pagedFor = {}
    /\ reads = {} /\ nprimary = 0 /\ flag = Undefined /\ queried = FALSE
    /\ skipped = {} /\ scanned = {} /\ plotted = {} /\ crossed = {}
    /\ features = [c \in Chan |-> NoFeatures]
    /\ seg \in [pc : {"compare"},
                series : UNION {[1..k -> SampleValues] : k \in 0..MaxSamples},
                sname : SeriesNames,
                threshold : Thresholds,
                given : NameArgs,
                name : NameArgs,
                thresh : {<<>>},
                threshflag : {NoneV}]
    /\ seg.name = seg.given

(* line 152: thresh = series > threshold *)
CompareThreshold ==
    /\ seg.pc = "compare"
    /\ seg' = [seg EXCEPT !.thresh = Compare(seg.series, seg.threshold),
                          !.pc = "name"]
    /\ UNCHANGED mainv

(* line 153: name = name or series.name *)
ChooseName ==
    /\ seg.pc = "name"
    /\ seg' = [seg EXCEPT !.name = PyOr(seg.name, seg.sname),
                          !.pc = "dqflag"]
    /\ UNCHANGED mainv

(* lines 154-155: threshflag = thresh.to_dqflag(name, round=True); return *)
MakeFlag ==
    /\ seg.pc = "dqflag"
    /\ seg' = [seg EXCEPT !.threshflag = ToDqflag(seg.thresh, seg.name),
                          !.pc = "returned"]
    /\ UNCHANGED mainv

NextSegments ==
    \/ CompareThreshold
    \/ ChooseName
    \/ MakeFlag

SpecSegments == InitSegments /\ [][NextSegments]_vars

(* ======================= the claims ======================= *)

(* C1: the interferometer given with --ifo is the one the scan uses: once  *)
(* set, ifo, the ifo of the page title, of the default configuration files *)
(* and of the default output directory all equal args.ifo.                 *)
C1_IfoIsTheOption ==
    argv.ifo # NoneV =>
        /\ pc # "args" => ifo = argv.ifo
        /\ (config_file # Undefined /\ argv.config_file = NoneV)
              => config_file = <<"default", argv.ifo, gps>>
        /\ title # Undefined => title = <<argv.ifo, "Qscan", gps>>
        /\ (outdir # Undefined /\ argv.output_directory = NoneV)
              => outdir = <<"~/public_html/wdq", argv.ifo, gps>>

(* ---- what the claims speak of ---- *)

(* the position of channel c in its block *)
Pos(c) == CHOOSE i \in 1..Len(Chans(cfg.section[c])) :
              Chans(cfg.section[c])[i] = c

(* channel c has been dealt with: its block was not skipped and the inner  *)
(* loop has gone past it                                                   *)
Done(c) ==
    /\ cfg.section[c] \notin skipped
    /\ \/ cfg.section[c] < blk
       \/ cfg.section[c] = blk /\ Pos(c) < ci

(* the channel before the one the inner loop is at *)
Prev == Chans(blk)[ci - 1]

(* the loop is between two channels and the last one went through the scan *)
(* statement, so that `series` is what that statement ended with           *)
JustScanned ==
    pc = "channel" /\ ci > 1 /\ Prev \notin Range(completed)

(* the block `flag` belongs to *)
LastMet == IF pc \in {"block", "done"} THEN blk - 1 ELSE blk

(* main() is past the construction of the matched filter *)
AfterFilter ==
    \/ pc \in {"block", "channel", "plot", "save", "toc", "page", "done"}
    \/ pc = "raised" /\ blk > 0

(* main() is past the checkpoint test of lines 217-232 *)
PastCheckpoint ==
    pc \notin {"args", "config", "primary", "htmlv", "outdir", "checkpoint"}

(* C2: with a record and checkpointing on, a channel named in the record's *)
(* 'Channel' column is never scanned, plotted, cross-correlated or saved   *)
(* again; once its (processed) block has dealt with it, its features are   *)
(* those of the record row at the index of its name, with correlated =     *)
(* (the matched filter exists), and it is in the table of contents.        *)
C2_CheckpointResume ==
    (summary.exists /\ ~argv.disable_checkpoint) =>
        \A c \in Range(summary.Channel) :
            /\ c \notin scanned /\ c \notin plotted /\ c \notin crossed
            /\ features[c].from # "scan"
            /\ Done(c) =>
                 /\ features[c].from = "record"
                 /\ features[c].row \in 1..Len(summary.Channel)
                 /\ summary.Channel[features[c].row] = c
                 /\ features[c].correlated = (correlate = "filter")
                 /\ c \in Range(analyzed)

C2_Witness ==
    /\ pc = "done"
    /\ \E c \in Chan :
         /\ features[c] = [from |-> "record", row |-> 2, correlated |-> TRUE]
         /\ summary.Channel[1] # c
         /\ c \in Range(analyzed)

(* C3: with --disable-checkpoint the record is not read, the completed     *)
(* list is empty, no channel is loaded from a previous run, and every      *)
(* channel a processed block has dealt with was passed to omega.scan.      *)
C3_CheckpointDisabled ==
    argv.disable_checkpoint =>
        /\ ~recordRead
        /\ completed = <<>>
        /\ \A c \in Chan :
             /\ features[c].from # "record"
             /\ Done(c) => c \in scanned

C3_Witness ==
    /\ argv.disable_checkpoint
    /\ summary.exists /\ Len(summary.Channel) = MaxRecord
    /\ pc = "done"
    /\ scanned = Chan

(* C4: the primary's data is read and the matched filter built, once and   *)
(* before any block is met, iff --disable-correlation was not given and    *)
(* the configuration has a primary section; otherwise correlate is None    *)
(* and the run goes on.  A scanned significant channel is cross-correlated *)
(* iff the filter exists, and its features are saved without correlation   *)
(* otherwise.                                                              *)
C4_CorrelationIffEnabledAndPrimary ==
    LET enabled == ~argv.disable_correlation /\ cfg.primary IN
    /\ AfterFilter =>
         /\ nprimary = IF enabled THEN 1 ELSE 0
         /\ correlate = IF enabled THEN "filter" ELSE NoneV
    /\ ~AfterFilter =>
         /\ nprimary = 0 /\ correlate = Undefined
         /\ reads = {} /\ skipped = {} /\ flag = Undefined /\ scanned = {}
    /\ \A c \in Chan :
         /\ features[c].from = "scan" =>
              /\ c \in crossed <=> correlate = "filter"
              /\ features[c].correlated = (c \in crossed)
         /\ c \in crossed => c \in plotted /\ c \in scanned

C4_Witness ==
    /\ pc = "done" /\ nprimary = 1
    /\ \E c \in Chan : c \in crossed /\ features[c].correlated

(* C5: a block is skipped iff it defines a state flag, --ignore-state-flags*)
(* was not given and check_flag says the flag is not active; the flag is   *)
(* queried iff it is defined and flags are not ignored, never with         *)
(* --ignore-state-flags; for a skipped block no data is read and none of   *)
(* its channels is scanned, loaded, plotted, put in the table of contents  *)
(* or given a page write.                                                  *)
C5_BlockSkippedIffFlagInactive ==
    /\ flag # Undefined =>
         /\ LastMet \in skipped <=>
              (flag # NoneV /\ ~argv.ignore_state_flags /\ flag = "inactive")
         /\ queried <=> (flag # NoneV /\ ~argv.ignore_state_flags)
    /\ argv.ignore_state_flags => ~queried /\ skipped = {}
    /\ \A b \in skipped :
         /\ b \notin reads
         /\ \A c \in Range(Chans(b)) :
              /\ c \notin scanned /\ c \notin plotted
              /\ features[c] = NoFeatures
              /\ c \notin Range(analyzed) /\ c \notin pagedFor

C5_Witness ==
    /\ pc = "done"
    /\ \E b \in skipped : Chans(b) # <<>>
    /\ scanned # {}

(* C6: the first page, with an empty table of contents, is written before  *)
(* any data is read; whenever the loop is between two channels or two      *)
(* blocks, every channel loaded or scanned as significant so far is in the *)
(* table of contents, the last one last, and the page as last written      *)
(* shows that table: one page write per such channel after the first page. *)
C6_IncrementalReport ==
    /\ (reads # {} \/ nprimary > 0) => npages >= 1
    /\ pc = "filter" =>
         /\ page = [kind |-> "qscan", toc |-> <<>>, refresh |-> TRUE,
                    title |-> title]
         /\ npages = 1 /\ reads = {} /\ nprimary = 0
    /\ pc \in {"channel", "block"} =>
         /\ page = [kind |-> "qscan", toc |-> analyzed, refresh |-> TRUE,
                    title |-> title]
         /\ npages = 1 + Len(analyzed)
         /\ \A c \in Chan :
              features[c].from # "none" <=> c \in Range(analyzed)
         /\ Range(analyzed) = pagedFor
    /\ (pc = "channel" /\ ci > 1 /\ features[Prev].from # "none") =>
         analyzed[Len(analyzed)] = Prev

C6_Witness ==
    /\ pc = "channel" /\ Len(analyzed) = 2
    /\ features[analyzed[1]].from = "record"
    /\ features[analyzed[2]].from = "scan"
    /\ page.toc = analyzed

(* C7: with a record, checkpointing on and no 'Standard Deviation' column: *)
(* if cross-correlation is still enabled after the primary section was     *)
(* parsed, main() ends with KeyError before any page is written, any data  *)
(* read or any channel scanned; if it is disabled, by the option or for    *)
(* want of a primary section, the record is accepted and main() goes on.   *)
C7_RecordWithoutStandardDeviation ==
    /\ pc \notin {"args", "config", "primary"} =>
         disable_correlation = (argv.disable_correlation \/ ~cfg.primary)
    /\ (PastCheckpoint /\ summary.exists /\ ~argv.disable_checkpoint
            /\ ~summary.std) =>
         IF ~disable_correlation
         THEN /\ pc = "raised" /\ raised = "KeyError"
              /\ npages = 0 /\ page = NoPage
              /\ reads = {} /\ nprimary = 0 /\ scanned = {} /\ blk = 0
         ELSE /\ recordRead /\ completed = summary.Channel
              /\ blk = 0 => pc \in {"page0", "filter"} /\ raised = NoneV
              /\ blk > 0 => npages >= 1
    /\ (pc = "raised" /\ blk = 0) =>
         /\ raised = "KeyError"
         /\ summary.exists /\ ~argv.disable_checkpoint /\ ~summary.std
         /\ ~disable_correlation

C7_Witness ==
    /\ pc = "raised" /\ raised = "KeyError" /\ blk = 0
    /\ summary.Channel # <<>>

C9_CaughtExceptionSkipsChannel ==
    /\ (JustScanned /\ series \in {"ValueError", "KeyError"}) =>
         /\ raised = NoneV
         /\ Prev \in scanned
         /\ Prev \notin plotted /\ Prev \notin crossed
         /\ features[Prev] = NoFeatures
         /\ Prev \notin Range(analyzed) /\ Prev \notin pagedFor
         /\ page.toc = analyzed /\ npages = 1 + Len(analyzed)
    /\ (pc = "raised" /\ blk > 0) =>
         /\ raised = series
         /\ series \in Exceptions \ {"ValueError", "KeyError"}
         /\ ~ENABLED Next
    /\ pc = "done" =>
         \A c \in Chan :
             cfg.section[c] \notin skipped =>
                 c \in scanned \/ features[c].from = "record"

C9_Witness ==
    /\ JustScanned /\ series = "KeyError"
    /\ blk = MaxBlocks
    /\ plotted # {} /\ Prev \notin plotted

(* C10: when the scan of a channel returns None, no plots are written for  *)
(* it, no features are saved, it is not cross-correlated, it is not put in *)
(* the table of contents, no page is written for it, and the loop goes on  *)
(* to the next channel.                                                    *)
C10_InsignificantChannelSkipped ==
    /\ series = NoneV =>
         /\ pc \notin {"plot", "save", "raised"}
         /\ pc \in {"toc", "page"} => channel \in Range(completed)
    /\ (JustScanned /\ series = NoneV) =>
         /\ raised = NoneV
         /\ Prev \in scanned
         /\ Prev \notin plotted /\ Prev \notin crossed
         /\ features[Prev] = NoFeatures
         /\ Prev \notin Range(analyzed) /\ Prev \notin pagedFor
         /\ page.toc = analyzed /\ npages = 1 + Len(analyzed)

C10_Witness ==
    /\ JustScanned /\ series = NoneV
    /\ ci = 2 /\ Len(Chans(blk)) = 2

(* block b has been met and was not skipped *)
Processed(b) ==
    /\ b \notin skipped
    /\ b < blk \/ (b = blk /\ pc # "block")

(* the scan statement is about to run, is running its products, or has    *)
(* just run, for a channel of the block the loop is in                     *)
AtScan ==
    \/ pc = "channel" /\ ci <= Len(Chans(blk))
          /\ channel \notin Range(completed)
    \/ pc \in {"plot", "save"}
    \/ pc = "raised" /\ blk > 0
    \/ JustScanned

(* C11: for every processed block, get_data is called iff one of the       *)
(* block's channel names is not in the completed list, and it is asked for *)
(* all the block's channels in one call; so whenever omega.scan is invoked *)
(* for a channel, `data` is what was read for the channel's own block in   *)
(* this iteration: never what an earlier block left, never undefined (the  *)
(* lookup data[channel.name] raises neither NameError nor KeyError).       *)
C11_DataReadForOwnBlock ==
    /\ \A b \in Blk :
         /\ Processed(b) =>
              (b \in reads <=>
                  \E c \in Range(Chans(b)) : c \notin Range(completed))
         /\ b \in reads => Processed(b)
    /\ request.who \in Blk =>
         /\ request.names = Chans(request.who)
         /\ data = request.who
         /\ request.who \in reads
    /\ data # 0 => data \in reads /\ data <= blk
    /\ AtScan =>
         /\ data = blk
         /\ blk \in reads
         /\ request.who = blk
    /\ series # "NameError"
    /\ \A c \in scanned :
         cfg.section[c] \in reads /\ c \notin Range(completed)

C11_Witness ==
    /\ pc = "plot"
    /\ blk = MaxBlocks /\ data = blk
    /\ \E b \in Blk :
         b < blk /\ Processed(b) /\ Chans(b) # <<>> /\ b \notin reads
    /\ channel \in scanned

=============================================================================
